---- MODULE Spec2Model ----
(***************************************************************************)
(* Model of src/src/pipeline.py: run_pipeline = load_and_merge_datasets ;  *)
(* clean_and_transform ; analyze_sales, over a directory listing of sales  *)
(* files.                                                                  *)
(*                                                                         *)
(* Numbers are fixed point: a numeric cell carries its value in hundredths *)
(* (2 is 200, 0.1 is 10), a cleaned quantity is a whole number, and a      *)
(* revenue is quantity * unit_price * (1 - discount) in ten-thousandths.   *)
(* The arithmetic is exact; float64 rounding is not modelled, and the      *)
(* inputs keep unit_price and discount finite.                             *)
(***************************************************************************)
EXTENDS Integers, Sequences, FiniteSets, TLC

VARIABLES listing, i, frames, log, pc, df, cleaned, monthly, regional, product

vars == <<listing, i, frames, log, pc, df, cleaned, monthly, regional, product>>

\* ------------------------------------------------------------------ bounds
MaxFiles == 2
MaxFileRows == 2
MaxRows == 2

\* ------------------------------------------------------------------ cells
required == {"order_id", "date", "region", "product", "quantity", "unit_price", "discount"}

extras == {"payment_method", "revenue"}

\* A missing text cell (None / NaN in an object column).
NA == "<NA>"

Num(n) == [t |-> "num", n |-> n]
NumText(n) == [t |-> "numtext", n |-> n]
Text == [t |-> "text", n |-> 0]
NaN == [t |-> "nan", n |-> 0]
Inf == [t |-> "inf", n |-> 0]

Ymd(y, m, d) == [t |-> "ymd", y |-> y, m |-> m, d |-> d]
BadText == [t |-> "text", y |-> 0, m |-> 0, d |-> 0]
NaT == [t |-> "NaT", y |-> 0, m |-> 0, d |-> 0]

\* The value pd.concat fills in for a column a frame does not have.
MissingCell(c) ==
    CASE c = "date" -> [t |-> "nan", y |-> 0, m |-> 0, d |-> 0]
      [] c \in {"region", "product", "payment_method"} -> NA
      [] c = "order_id" -> 0
      [] OTHER -> NaN

MkRow(date, region, prod, q, p, d) ==
    [order_id |-> 100000, date |-> date, region |-> region, product |-> prod,
     quantity |-> q, unit_price |-> p, discount |-> d,
     payment_method |-> "UPI", revenue |-> Num(99999)]

Project(row, cols) == [c \in cols |-> row[c]]

\* ------------------------------------------------------------------ inputs
GoodDates == {Ymd(2025, 1, 5), Ymd(2025, 1, 20), Ymd(2024, 12, 3)}

GroupRows ==
    {MkRow(dt, rg, "Laptop", Num(200), Num(10000), Num(10)) :
        dt \in GoodDates \cup {Ymd(2025, 2, 30)}, rg \in {"South", "North", NA}}
    \cup {MkRow(Ymd(2025, 1, 5), "South", "Camera", Num(100), Num(10000), Num(0)),
          MkRow(BadText, "North", NA, Num(100), Num(10000), Num(0))}

NumRows ==
    {MkRow(Ymd(2025, 1, 5), "North", "Phone", q, Num(10000), Num(10)) :
        q \in {Num(250), Num(-100), Text, NaN, Inf, NumText(300)}}
    \cup {MkRow(Ymd(2025, 1, 5), "North", "Phone", Num(200), p, Num(10)) :
        p \in {Text, NaN, Num(-500)}}
    \cup {MkRow(Ymd(2025, 1, 5), "North", "Phone", Num(200), Num(10000), d) :
        d \in {Text, NaN, Num(150)}}

RowPool == GroupRows \cup NumRows

\* Rows the files of a directory are made of.
FileRowPool ==
    {MkRow(Ymd(2025, 1, 5), "South", "Laptop", Num(200), Num(10000), Num(10)),
     MkRow(Ymd(2024, 12, 3), "North", "Camera", Num(100), Num(10000), Num(0)),
     MkRow(BadText, NA, "Laptop", Inf, Num(10000), Num(10))}

SeqsUpTo(S, n) == UNION {[1..k -> S] : k \in 0..n}

Tables == SeqsUpTo(FileRowPool, MaxFileRows)

OneRow == <<MkRow(Ymd(2025, 1, 20), "North", "Laptop", Num(100), Num(10000), Num(0))>>

File(ext, content, cols, rows) ==
    [ext |-> ext, content |-> content, cols |-> cols, rows |-> rows]

ColumnSets == {required, required \cup extras, required \ {"region"}}

FilePool ==
    {File(".csv", "csv", cs, tb) : cs \in ColumnSets, tb \in Tables}
    \cup {File(".json", ct, required \cup extras, OneRow) : ct \in {"jsonl", "json", "garbage"}}
    \cup {File(".xlsx", "xlsx", required, OneRow), File(".csv", "garbage", required, OneRow),
          File(".txt", "csv", required, OneRow)}

\* ------------------------------------------------------------------ loading
read_csv(f) == f.content = "csv"
read_json_lines(f) == f.content = "jsonl"
read_json(f) == f.content = "json"
read_excel(f) == f.content = "xlsx"

Supported(f) == f.ext \in {".csv", ".json", ".xlsx"}

\* Mutant: a .json file is not retried as one JSON document.
ReadsNoRetry(f) ==
    CASE f.ext = ".csv" -> read_csv(f)
      [] f.ext = ".json" -> read_json_lines(f)
      [] f.ext = ".xlsx" -> read_excel(f)
      [] OTHER -> FALSE

\* TRUE when the try block of the loop body leaves df bound to a frame.
Reads(f) ==
    CASE f.ext = ".csv" -> read_csv(f)
      [] f.ext = ".json" -> IF read_json_lines(f) THEN TRUE ELSE read_json(f)
      [] f.ext = ".xlsx" -> read_excel(f)
      [] OTHER -> FALSE

Frame(f) == [cols |-> f.cols, rows |-> [k \in DOMAIN f.rows |-> Project(f.rows[k], f.cols)]]

\* Mutant: the gate passes a frame that has any required column.
SchemaOkAny(fr) == required \cap fr.cols # {}

SchemaOk(fr) == required \subseteq fr.cols

RECURSIVE ConcatCols(_)
ConcatCols(fs) ==
    IF fs = <<>> THEN {} ELSE Head(fs).cols \cup ConcatCols(Tail(fs))

Reindex(row, cols) ==
    [c \in cols |-> IF c \in DOMAIN row THEN row[c] ELSE MissingCell(c)]

RECURSIVE ConcatRows(_, _)
ConcatRows(fs, cols) ==
    IF fs = <<>> THEN <<>>
    ELSE [k \in DOMAIN Head(fs).rows |-> Reindex(Head(fs).rows[k], cols)]
         \o ConcatRows(Tail(fs), cols)

RECURSIVE DropDuplicates(_)
DropDuplicates(rows) ==
    IF rows = <<>> THEN <<>>
    ELSE LET rest == DropDuplicates(Tail(rows))
         IN <<Head(rows)>> \o SelectSeq(rest, LAMBDA r : r # Head(rows))

\* Mutant: the merge drops repeated rows.
concatDistinct(fs) == DropDuplicates(ConcatRows(fs, ConcatCols(fs)))

concat(fs) == ConcatRows(fs, ConcatCols(fs))

\* ------------------------------------------------------------------ cleaning
IsLeap(y) == (y % 4 = 0 /\ y % 100 # 0) \/ y % 400 = 0

DaysIn(y, m) ==
    CASE m \in {1, 3, 5, 7, 8, 10, 12} -> 31
      [] m \in {4, 6, 9, 11} -> 30
      [] m = 2 -> IF IsLeap(y) THEN 29 ELSE 28
      [] OTHER -> 0

\* pd.to_datetime(errors="coerce") on one cell.
to_datetime(c) ==
    IF c.t = "ymd" /\ c.m \in 1..12 /\ c.d \in 1..DaysIn(c.y, c.m)
    THEN [t |-> "date", y |-> c.y, m |-> c.m, d |-> c.d]
    ELSE NaT

\* pd.to_numeric(errors="coerce") on one cell.
to_numeric(c) ==
    CASE c.t \in {"num", "numtext"} -> Num(c.n)
      [] c.t = "inf" -> Inf
      [] OTHER -> NaN

\* Mutant: missing values are left in place.
fillnaNothing(c, v) == c

fillna(c, v) == IF c.t = "nan" THEN Num(v) ELSE c

\* astype(int) on a finite float: truncation toward zero.
astype_int(c) == IF c.n >= 0 THEN c.n \div 100 ELSE -((-c.n) \div 100)

\* astype(int) raises on a non-finite value.
CastRaises(c) == fillna(to_numeric(c), 0).t # "num"

CleanQuantity(c) == astype_int(fillna(to_numeric(c), 0))

CleanFloat(c) == fillna(to_numeric(c), 0)

\* quantity * unit_price * (1 - discount); a NaN operand gives NaN.
Revenue(q, p, d) ==
    IF p.t = "num" /\ d.t = "num" THEN Num(q * p.n * (100 - d.n)) ELSE NaN

\* Mutant: a revenue column of the source is kept.
CleanRowKeepRevenue(r) ==
    [c \in DOMAIN r \cup {"revenue"} |->
        CASE c = "date" -> to_datetime(r.date)
          [] c = "quantity" -> CleanQuantity(r.quantity)
          [] c = "unit_price" -> CleanFloat(r.unit_price)
          [] c = "discount" -> CleanFloat(r.discount)
          [] c = "revenue" ->
                IF "revenue" \in DOMAIN r /\ r.revenue.t = "num" THEN r.revenue
                ELSE Revenue(CleanQuantity(r.quantity), CleanFloat(r.unit_price),
                             CleanFloat(r.discount))
          [] OTHER -> r[c]]

CleanRow(r) ==
    [c \in DOMAIN r \cup {"revenue"} |->
        CASE c = "date" -> to_datetime(r.date)
          [] c = "quantity" -> CleanQuantity(r.quantity)
          [] c = "unit_price" -> CleanFloat(r.unit_price)
          [] c = "discount" -> CleanFloat(r.discount)
          [] c = "revenue" -> Revenue(CleanQuantity(r.quantity), CleanFloat(r.unit_price),
                                      CleanFloat(r.discount))
          [] OTHER -> r[c]]

CleanRaises(rows) == \E k \in DOMAIN rows : CastRaises(rows[k].quantity)

clean_and_transform(rows) == [k \in DOMAIN rows |-> CleanRow(rows[k])]

\* ------------------------------------------------------------------ aggregation
\* Python's string order on the names the inputs use.
Alphabet == <<"Camera", "Laptop", "North", "Phone", "South">>

StrRank(s) == CHOOSE k \in DOMAIN Alphabet : Alphabet[k] = s

PeriodRank(p) == p.y * 12 + p.m

\* Series.dt.to_period("M") on one cell.
to_period(c) == IF c.t = "date" THEN [t |-> "period", y |-> c.y, m |-> c.m]
                ELSE [t |-> "NaT", y |-> 0, m |-> 0]

Digits == <<"0", "1", "2", "3", "4", "5", "6", "7", "8", "9">>

Digit(n) == Digits[n + 1]

\* str(Period): "YYYY-MM" as a sequence of characters.
PeriodStr(p) ==
    <<Digit(p.y \div 1000), Digit((p.y \div 100) % 10), Digit((p.y \div 10) % 10),
      Digit(p.y % 10), "-", Digit(p.m \div 10), Digit(p.m % 10)>>

RECURSIVE SortRanks(_)
SortRanks(R) ==
    IF R = {} THEN <<>>
    ELSE LET lo == CHOOSE x \in R : \A y \in R : x <= y
         IN <<lo>> \o SortRanks(R \ {lo})

RECURSIVE SumWhere(_, _, _)
SumWhere(keys, rows, key) ==
    IF rows = <<>> THEN 0
    ELSE (IF Head(keys) = key THEN Head(rows).revenue.n ELSE 0)
         + SumWhere(Tail(keys), Tail(rows), key)

RECURSIVE FirstSeen(_, _)
FirstSeen(keys, null) ==
    IF keys = <<>> THEN <<>>
    ELSE LET init == FirstSeen(SubSeq(keys, 1, Len(keys) - 1), null)
             last == keys[Len(keys)]
         IN IF last = null \/ \E k \in DOMAIN init : init[k] = last
            THEN init ELSE Append(init, last)

\* Mutant: the groups come in order of first appearance (sort=False).
GroupKeysUnsorted(keys, ranks, null) == FirstSeen(keys, null)

\* The distinct non-null keys, ascending (groupby: sort=True, dropna=True).
\* ranks[k] is the place of keys[k] in the order of the keys.
GroupKeys(keys, ranks, null) ==
    LET present == {k \in DOMAIN keys : keys[k] # null}
        order == SortRanks({ranks[k] : k \in present})
    IN [n \in DOMAIN order |-> keys[CHOOSE k \in present : ranks[k] = order[n]]]

groupby_sum(keys, ranks, rows, null) ==
    LET gk == GroupKeys(keys, ranks, null)
    IN [k \in DOMAIN gk |-> [key |-> gk[k], revenue |-> SumWhere(keys, rows, gk[k])]]

MonthKeys(rows) == [k \in DOMAIN rows |-> to_period(rows[k].date)]
RegionKeys(rows) == [k \in DOMAIN rows |-> rows[k].region]
ProductKeys(rows) == [k \in DOMAIN rows |-> rows[k].product]

PeriodRanks(keys) ==
    [k \in DOMAIN keys |-> IF keys[k] = to_period(NaT) THEN 0 ELSE PeriodRank(keys[k])]

StrRanks(keys) == [k \in DOMAIN keys |-> IF keys[k] = NA THEN 0 ELSE StrRank(keys[k])]

MonthlySales(rows) ==
    LET g == groupby_sum(MonthKeys(rows), PeriodRanks(MonthKeys(rows)),
                         rows, to_period(NaT))
    IN [k \in DOMAIN g |-> [key |-> PeriodStr(g[k].key), revenue |-> g[k].revenue]]

RegionalSales(rows) ==
    groupby_sum(RegionKeys(rows), StrRanks(RegionKeys(rows)), rows, NA)

ProductSales(rows) ==
    groupby_sum(ProductKeys(rows), StrRanks(ProductKeys(rows)), rows, NA)

\* ------------------------------------------------------------------ the run
Listings == SeqsUpTo(FilePool, MaxFiles)

Init ==
    /\ listing \in Listings
    /\ i = 1
    /\ frames = <<>>
    /\ log = <<>>
    /\ pc = "load"
    /\ df = <<>>
    /\ cleaned = <<>>
    /\ monthly = <<>>
    /\ regional = <<>>
    /\ product = <<>>

InLoop == pc = "load" /\ i <= Len(listing)

Step(outcome, fs) ==
    /\ i' = i + 1
    /\ log' = Append(log, outcome)
    /\ frames' = fs
    /\ UNCHANGED <<listing, pc, df, cleaned, monthly, regional, product>>

SkipUnsupported ==
    /\ InLoop
    /\ ~Supported(listing[i])
    /\ Step("unsupported", frames)

SkipUnreadable ==
    /\ InLoop
    /\ Supported(listing[i])
    /\ ~Reads(listing[i])
    /\ Step("unreadable", frames)

SkipInvalid ==
    /\ InLoop
    /\ Supported(listing[i])
    /\ Reads(listing[i])
    /\ ~SchemaOk(Frame(listing[i]))
    /\ Step("missing", frames)

LoadFrame ==
    /\ InLoop
    /\ Supported(listing[i])
    /\ Reads(listing[i])
    /\ SchemaOk(Frame(listing[i]))
    /\ Step("loaded", Append(frames, Frame(listing[i])))

NoValidDatasets ==
    /\ pc = "load"
    /\ i > Len(listing)
    /\ frames = <<>>
    /\ pc' = "no_valid_input"
    /\ UNCHANGED <<listing, i, frames, log, df, cleaned, monthly, regional, product>>

\* Mutant: the merge does not check that a frame was loaded.
MergeUnchecked ==
    /\ pc = "load"
    /\ i > Len(listing)
    /\ df' = concat(frames)
    /\ pc' = "clean"
    /\ UNCHANGED <<listing, i, frames, log, cleaned, monthly, regional, product>>

Merge ==
    /\ pc = "load"
    /\ i > Len(listing)
    /\ frames # <<>>
    /\ df' = concat(frames)
    /\ pc' = "clean"
    /\ UNCHANGED <<listing, i, frames, log, cleaned, monthly, regional, product>>

Clean ==
    /\ pc = "clean"
    /\ ~CleanRaises(df)
    /\ cleaned' = clean_and_transform(df)
    /\ pc' = "analyze"
    /\ UNCHANGED <<listing, i, frames, log, df, monthly, regional, product>>

CleanError ==
    /\ pc = "clean"
    /\ CleanRaises(df)
    /\ pc' = "clean_error"
    /\ UNCHANGED <<listing, i, frames, log, df, cleaned, monthly, regional, product>>

Analyze ==
    /\ pc = "analyze"
    /\ monthly' = MonthlySales(cleaned)
    /\ regional' = RegionalSales(cleaned)
    /\ product' = ProductSales(cleaned)
    /\ pc' = "done"
    /\ UNCHANGED <<listing, i, frames, log, df, cleaned>>

Next ==
    \/ SkipUnsupported
    \/ SkipUnreadable
    \/ SkipInvalid
    \/ LoadFrame
    \/ NoValidDatasets
    \/ Merge
    \/ Clean
    \/ CleanError
    \/ Analyze

Spec == Init /\ [][Next]_vars

\* clean_and_transform and analyze_sales applied to an arbitrary Dataset.
Datasets ==
    {[k \in DOMAIN rows |-> Project(rows[k], cs)] :
        rows \in SeqsUpTo(RowPool, MaxRows), cs \in {required, required \cup extras}}

InitClean ==
    /\ listing = <<>>
    /\ i = 1
    /\ frames = <<>>
    /\ log = <<>>
    /\ pc = "clean"
    /\ df \in Datasets
    /\ cleaned = <<>>
    /\ monthly = <<>>
    /\ regional = <<>>
    /\ product = <<>>

NextClean ==
    \/ Clean
    \/ CleanError
    \/ Analyze

SpecClean == InitClean /\ [][NextClean]_vars

\* ------------------------------------------------------------------ properties
Merged == pc \in {"clean", "analyze", "done", "clean_error"}

Cleaned == pc \in {"analyze", "done"}

\* What a file is, by its name and content alone.
Readable(f) ==
    \/ f.ext = ".csv" /\ f.content = "csv"
    \/ f.ext = ".json" /\ f.content \in {"jsonl", "json"}
    \/ f.ext = ".xlsx" /\ f.content = "xlsx"

HasRequired(f) == \A c \in required : c \in f.cols

Valid(f) == Readable(f) /\ HasRequired(f)

NoneValid == \A k \in DOMAIN listing : ~Valid(listing[k])

RECURSIVE ValidRowCount(_)
ValidRowCount(ls) ==
    IF ls = <<>> THEN 0
    ELSE (IF Valid(Head(ls)) THEN Len(Head(ls).rows) ELSE 0) + ValidRowCount(Tail(ls))

RECURSIVE RevenueOver(_, _)
RevenueOver(rows, idx) ==
    IF idx = {} THEN 0
    ELSE LET k == CHOOSE x \in idx : TRUE
         IN rows[k].revenue.n + RevenueOver(rows, idx \ {k})

RECURSIVE Total(_)
Total(agg) == IF agg = <<>> THEN 0 ELSE Head(agg).revenue + Total(Tail(agg))

Known(r) == r.date.t = "date"

MonthOf(r) == PeriodStr([y |-> r.date.y, m |-> r.date.m])

\* C1: the merged Dataset holds rows only of files that loaded and have all
\* seven required columns: every accepted frame has them, a file missing one
\* is never accepted, a readable file with the required columns and extras is
\* accepted, and the merged row count is the sum over the accepted files.
C1_MergeOnlyValidFiles ==
    /\ \A k \in DOMAIN frames : \A c \in required : c \in frames[k].cols
    /\ \A k \in DOMAIN log : ~HasRequired(listing[k]) => log[k] # "loaded"
    /\ \A k \in DOMAIN log :
          (Readable(listing[k]) /\ listing[k].cols = required \cup extras)
              => log[k] = "loaded"
    /\ Merged => /\ Len(df) = ValidRowCount(listing)
                 /\ \A k \in DOMAIN df : required \subseteq DOMAIN df[k]

C1_Witness ==
    /\ Merged
    /\ Len(df) > 0
    /\ \E j, k \in DOMAIN listing :
          /\ Readable(listing[j]) /\ ~HasRequired(listing[j]) /\ Len(listing[j].rows) > 0
          /\ listing[k].cols = required \cup extras /\ log[k] = "loaded"

\* C2: when no file of the directory loads and passes the schema gate (an
\* empty directory included) the merge step raises "no valid datasets", the
\* run stops there, and Clean and Aggregate are never entered.
C2_NoValidInputIsFatal ==
    NoneValid =>
        /\ pc \in {"load", "no_valid_input"}
        /\ df = <<>> /\ cleaned = <<>>
        /\ monthly = <<>> /\ regional = <<>> /\ product = <<>>
        /\ (pc = "load" /\ i > Len(listing)) => ENABLED NoValidDatasets
        /\ pc = "no_valid_input" => ~ENABLED Next

C2_Witness ==
    /\ pc = "no_valid_input"
    /\ Len(listing) = 2
    /\ log = <<"unreadable", "missing">>

\* C3: a failure of one file excludes that file only: each entry gets the
\* outcome its own name and content decide (a .json file is unreadable only
\* when both the line parse and the retry as one document fail), every entry
\* of the listing is processed, and the merge succeeds exactly when some file
\* survived.
C3_FileFailuresAreLocal ==
    /\ Len(log) = i - 1
    /\ \A k \in DOMAIN log :
          /\ log[k] = "unsupported" <=> listing[k].ext \notin {".csv", ".json", ".xlsx"}
          /\ log[k] = "unreadable" <=>
                (listing[k].ext \in {".csv", ".json", ".xlsx"} /\ ~Readable(listing[k]))
          /\ log[k] = "missing" <=> (Readable(listing[k]) /\ ~HasRequired(listing[k]))
          /\ log[k] = "loaded" <=> Valid(listing[k])
          /\ listing[k].ext = ".json" =>
                (log[k] = "unreadable" <=> listing[k].content \notin {"jsonl", "json"})
    /\ (pc = "load" /\ i <= Len(listing)) => ENABLED Next
    /\ pc # "load" => Len(log) = Len(listing)
    /\ pc # "load" => (pc # "no_valid_input" <=> \E k \in DOMAIN listing : Valid(listing[k]))

C3_Witness ==
    /\ Merged
    /\ \E j, k \in DOMAIN listing :
          /\ listing[j].ext = ".json" /\ log[j] = "unreadable"
          /\ listing[k].ext = ".json" /\ listing[k].content = "json" /\ log[k] = "loaded"

\* C4: each Aggregate maps each key to the revenue sum of its group, its
\* total is the revenue sum over the records of its membership predicate
\* (known date for monthly, every record for regional and product), and a
\* record with an unknown date still contributes to regional and product.
C4_AggregatesExact ==
    pc = "done" =>
        /\ \A j \in DOMAIN monthly : monthly[j].revenue =
              RevenueOver(cleaned, {k \in DOMAIN cleaned :
                  Known(cleaned[k]) /\ MonthOf(cleaned[k]) = monthly[j].key})
        /\ \A j \in DOMAIN regional : regional[j].revenue =
              RevenueOver(cleaned, {k \in DOMAIN cleaned : cleaned[k].region = regional[j].key})
        /\ \A j \in DOMAIN product : product[j].revenue =
              RevenueOver(cleaned, {k \in DOMAIN cleaned : cleaned[k].product = product[j].key})
        /\ Total(monthly) = RevenueOver(cleaned, {k \in DOMAIN cleaned : Known(cleaned[k])})
        /\ Total(regional) = RevenueOver(cleaned, DOMAIN cleaned)
        /\ Total(product) = RevenueOver(cleaned, DOMAIN cleaned)
        /\ \A k \in DOMAIN cleaned : ~Known(cleaned[k]) =>
              /\ \E j \in DOMAIN regional : regional[j].key = cleaned[k].region
              /\ \E j \in DOMAIN product : product[j].key = cleaned[k].product

\* C5: the regional Aggregate has a group for the records whose region is
\* missing, so its total is the total revenue of the CleanedDataset.
C5_NullRegionGrouped ==
    pc = "done" =>
        /\ \A k \in DOMAIN cleaned : cleaned[k].region = NA =>
              \E j \in DOMAIN regional :
                  /\ regional[j].key = NA
                  /\ regional[j].revenue = RevenueOver(cleaned,
                        {n \in DOMAIN cleaned : cleaned[n].region = NA})
        /\ Total(regional) = RevenueOver(cleaned, DOMAIN cleaned)

\* C6 as stated: every cleaned record has a non-null date, a non-negative
\* whole quantity, a non-negative unit_price and a numeric discount.
C6_NonNullNonNegative ==
    Cleaned => \A k \in DOMAIN cleaned :
        /\ cleaned[k].date.t # "NaT"
        /\ cleaned[k].quantity \in Nat
        /\ cleaned[k].unit_price.t = "num" /\ cleaned[k].unit_price.n >= 0
        /\ cleaned[k].discount.t = "num"

ValidCalendar(c) == c.t = "ymd" /\ c.m \in 1..12 /\ c.d \in 1..DaysIn(c.y, c.m)

\* C6 amended: every cleaned record has a date that is a calendar date or the
\* unknown marker NaT (exactly when the source date does not parse), a whole
\* quantity and a numeric unit_price and discount; a numeric source value
\* keeps its sign and size, so negative quantities and prices and discounts
\* above 1 pass through.
C6_TypedNotClamped ==
    Cleaned => \A k \in DOMAIN cleaned :
        /\ cleaned[k].date.t \in {"date", "NaT"}
        /\ cleaned[k].date.t = "NaT" <=> ~ValidCalendar(df[k].date)
        /\ cleaned[k].quantity \in Int
        /\ cleaned[k].unit_price.t = "num"
        /\ cleaned[k].discount.t = "num"
        /\ df[k].quantity.t = "num" =>
              /\ cleaned[k].quantity * 100 <= df[k].quantity.n + 99
              /\ cleaned[k].quantity * 100 >= df[k].quantity.n - 99
        /\ df[k].unit_price.t = "num" => cleaned[k].unit_price.n = df[k].unit_price.n
        /\ df[k].discount.t = "num" => cleaned[k].discount.n = df[k].discount.n

C6_Witness ==
    /\ Cleaned
    /\ \E j, k \in DOMAIN cleaned :
          /\ cleaned[j].date.t = "NaT"
          /\ cleaned[k].quantity < 0 \/ cleaned[k].unit_price.n < 0
                \/ cleaned[k].discount.n > 100

\* C7: after cleaning every record's revenue is quantity * unit_price *
\* (1 - discount) of its own coerced fields, also when the source Dataset
\* has a revenue column, whose values are not kept.
C7_RevenueRecomputed ==
    Cleaned => \A k \in DOMAIN cleaned :
        /\ cleaned[k].revenue.t = "num"
        /\ cleaned[k].revenue.n =
              cleaned[k].quantity * cleaned[k].unit_price.n * (100 - cleaned[k].discount.n)

C7_Witness ==
    /\ Cleaned
    /\ \E k \in DOMAIN cleaned :
          /\ "revenue" \in DOMAIN df[k]
          /\ df[k].revenue.t = "num"
          /\ cleaned[k].revenue # df[k].revenue
          /\ cleaned[k].revenue.n > 0

Numeric(c) == c.t \in {"num", "numtext"}

\* C8: cleaning never fails and never drops a record: the CleanedDataset has
\* as many records as the input, a non-numeric or missing quantity is 0, a
\* non-numeric or missing unit_price or discount is 0.0, an unparsable date
\* is the unknown marker, and a defaulted quantity gives revenue 0.
C8_CoercionTotal ==
    /\ pc # "clean_error"
    /\ Cleaned =>
          /\ Len(cleaned) = Len(df)
          /\ \A k \in DOMAIN cleaned :
                /\ ~Numeric(df[k].quantity) =>
                      cleaned[k].quantity = 0 /\ cleaned[k].revenue = Num(0)
                /\ ~Numeric(df[k].unit_price) => cleaned[k].unit_price = Num(0)
                /\ ~Numeric(df[k].discount) => cleaned[k].discount = Num(0)
                /\ ~ValidCalendar(df[k].date) => cleaned[k].date = NaT

Count(rows, r) == Cardinality({k \in DOMAIN rows : Project(rows[k], required) = r})

RECURSIVE ValidCount(_, _)
ValidCount(ls, r) ==
    IF ls = <<>> THEN 0
    ELSE (IF Valid(Head(ls)) THEN Count(Head(ls).rows, r) ELSE 0) + ValidCount(Tail(ls), r)

InputRows == {Project(r, required) : r \in FileRowPool \cup {OneRow[1]}}

\* C9: no step deduplicates: a record occurs in the merged Dataset as often
\* as in the accepted files together, the CleanedDataset has one record per
\* merged record, and every group's revenue counts each of its records,
\* repeated ones included.
C9_NoDeduplication ==
    /\ Merged => \A r \in InputRows : Count(df, r) = ValidCount(listing, r)
    /\ Cleaned =>
          /\ Len(cleaned) = Len(df)
          /\ \A k \in DOMAIN cleaned :
                /\ cleaned[k].order_id = df[k].order_id
                /\ cleaned[k].region = df[k].region
                /\ cleaned[k].product = df[k].product
    /\ pc = "done" =>
          /\ \A j \in DOMAIN monthly : monthly[j].revenue =
                RevenueOver(cleaned, {k \in DOMAIN cleaned :
                    Known(cleaned[k]) /\ MonthOf(cleaned[k]) = monthly[j].key})
          /\ \A j \in DOMAIN regional : regional[j].revenue =
                RevenueOver(cleaned, {k \in DOMAIN cleaned : cleaned[k].region = regional[j].key})
          /\ \A j \in DOMAIN product : product[j].revenue =
                RevenueOver(cleaned, {k \in DOMAIN cleaned : cleaned[k].product = product[j].key})

C9_Witness ==
    /\ pc = "done"
    /\ Len(listing) = 2
    /\ \E j, k \in DOMAIN cleaned : j < k /\ cleaned[j] = cleaned[k]
          /\ cleaned[j].revenue.n > 0
          /\ \E n \in DOMAIN regional :
                regional[n].key = cleaned[j].region
                /\ regional[n].revenue >= 2 * cleaned[j].revenue.n
    /\ \E k \in DOMAIN listing[1].rows : \E n \in DOMAIN listing[2].rows :
          Project(listing[1].rows[k], required) = Project(listing[2].rows[n], required)

RECURSIVE FramesOf(_)
FramesOf(ls) ==
    IF ls = <<>> THEN <<>>
    ELSE (IF Supported(Head(ls)) /\ Reads(Head(ls)) /\ SchemaOk(Frame(Head(ls)))
          THEN <<Frame(Head(ls))>> ELSE <<>>) \o FramesOf(Tail(ls))

\* The three Aggregates of a run that enumerates the directory as ls.
AggregatesOf(ls) ==
    LET c == clean_and_transform(concat(FramesOf(ls)))
    IN <<MonthlySales(c), RegionalSales(c), ProductSales(c)>>

Reordered(ls, p) == [k \in DOMAIN ls |-> ls[p[k]]]

DigitValue(ch) == CHOOSE n \in 0..9 : Digits[n + 1] = ch

MonthNumber(s) ==
    (DigitValue(s[1]) * 1000 + DigitValue(s[2]) * 100 + DigitValue(s[3]) * 10
        + DigitValue(s[4])) * 12 + DigitValue(s[6]) * 10 + DigitValue(s[7])

====
